---- MODULE Spec2Model ----
(***************************************************************************)
(* Model of internal/rsm/membership.go: the membership record of one raft  *)
(* group and the handleConfigChange state machine that validates and       *)
(* applies configuration changes to it.                                    *)
(*                                                                         *)
(* An address is a sequence of one-character strings so that               *)
(* strings.TrimSpace and strings.EqualFold are computed, not assumed.      *)
(***************************************************************************)
EXTENDS Integers, Sequences, FiniteSets, TLC

\* ------------------------------------------------------------------ bounds
MaxNode == 2
MaxIndex == 5

NodeIDs == 1..MaxNode

\* pb.ConfigChangeType values; "Unknown" stands for any value outside the enum
AddNode == "AddNode"
RemoveNode == "RemoveNode"
AddObserver == "AddObserver"
AddWitness == "AddWitness"
UnknownType == "Unknown"
KnownTypes == {AddNode, RemoveNode, AddObserver, AddWitness}
Types == KnownTypes \cup {UnknownType}

\* addresses the caller may send: "a", " A " (same endpoint, other spelling), "b"
Addrs == { <<"a">>, <<" ", "A", " ">>, <<"b">> }

\* ------------------------------------------------------- address equality
IsSpace(c) == c = " "

RECURSIVE TrimLeft(_)
TrimLeft(s) ==
  IF s # <<>> /\ IsSpace(Head(s)) THEN TrimLeft(Tail(s)) ELSE s

RECURSIVE TrimRight(_)
TrimRight(s) ==
  IF s # <<>> /\ IsSpace(s[Len(s)])
    THEN TrimRight(SubSeq(s, 1, Len(s) - 1))
    ELSE s

TrimSpace(s) == TrimRight(TrimLeft(s))

Fold(c) ==
  CASE c = "A" -> "a"
    [] c = "B" -> "b"
    [] OTHER -> c

EqualFold(s, t) ==
  /\ Len(s) = Len(t)
  /\ \A i \in 1..Len(s) : Fold(s[i]) = Fold(t[i])

addressEqual_caseSensitive(addr1, addr2) == TrimSpace(addr1) = TrimSpace(addr2)

addressEqual(addr1, addr2) == EqualFold(TrimSpace(addr1), TrimSpace(addr2))

\* ------------------------------------------------------------ Go map ops
Has(f, k) == k \in DOMAIN f
MapPut(f, k, v) == [x \in (DOMAIN f) \cup {k} |-> IF x = k THEN v ELSE f[x]]
MapDelete(f, k) == [x \in (DOMAIN f) \ {k} |-> f[x]]
EmptyMap == << >>

\* ------------------------------------------------------------------ state
VARIABLES
  members,   \* *pb.Membership owned by the store
  ordered,   \* membership.ordered
  pc,        \* "idle" between calls, "returned" when a call has just ended
  pre,       \* the membership at entry of the last call
  cc,        \* the pb.ConfigChange of the last call
  index,     \* the log index of the last call
  accepted,  \* the value returned by the last call
  reason,    \* the line logged by the last call
  panicked,  \* the panic raised by the last call, NoPanic when it returned
  lastAcceptedIndex, \* log index of the last call that returned true, 0 if none
  orderHistory, \* as of the entry of the last call: the
               \* ConfigChangeId values since replaced (old) and the
               \* ConfigChangeId of every accepted non-Initialize request (used)
  peer,      \* a second membership store: its members and its last result
  digests,   \* the bytes the last getHash of each store wrote to the hash
  heap,      \* the maps made so far, by the make call that made them
  store,     \* *m.members field by field: which map each field refers to
  caller     \* the pb.Membership value a caller of set/get holds, if any

vars == << members, ordered, pc, pre, cc, index, accepted, reason,
           panicked, lastAcceptedIndex, orderHistory, peer, digests,
           heap, store, caller >>

\* the maps of the store and of its callers, followed one by one
storeVars == << heap, store, caller >>

\* what handleConfigChange on the first store leaves alone
others == << peer, digests, heap, store, caller >>

NoPanic == "none"

newMembership ==
  [ Addresses |-> EmptyMap, Observers |-> EmptyMap, Witnesses |-> EmptyMap,
    Removed |-> {}, ConfigChangeId |-> 0 ]

ConfigChanges ==
  [ Type : Types, NodeID : NodeIDs, Address : Addrs,
    ConfigChangeId : 0..MaxIndex, Initialize : BOOLEAN ]

\* -------------------------------------------------------- role predicates
isConfChangeUpToDate_ignoreInitialize(m, ord, c) ==
  IF ~ord THEN TRUE
  ELSE m.ConfigChangeId = c.ConfigChangeId

isConfChangeUpToDate_ignoreOrdered(m, ord, c) ==
  IF c.Initialize THEN TRUE
  ELSE m.ConfigChangeId = c.ConfigChangeId

isConfChangeUpToDate_acceptsOlder(m, ord, c) ==
  IF ~ord \/ c.Initialize THEN TRUE
  ELSE IF m.ConfigChangeId >= c.ConfigChangeId THEN TRUE
  ELSE FALSE

isConfChangeUpToDate(m, ord, c) ==
  IF ~ord \/ c.Initialize THEN TRUE
  ELSE IF m.ConfigChangeId = c.ConfigChangeId THEN TRUE
  ELSE FALSE

isAddingRemovedNode_onlyAddNode(m, c) ==
  IF c.Type = AddNode THEN c.NodeID \in m.Removed ELSE FALSE

isAddingRemovedNode(m, c) ==
  IF c.Type = AddNode \/ c.Type = AddObserver \/ c.Type = AddWitness
    THEN c.NodeID \in m.Removed
    ELSE FALSE

isPromotingObserver(m, c) ==
  IF c.Type = AddNode
    THEN Has(m.Observers, c.NodeID)
         /\ addressEqual(m.Observers[c.NodeID], c.Address)
    ELSE FALSE

isInvalidObserverPromotion(m, c) ==
  IF c.Type = AddNode
    THEN Has(m.Observers, c.NodeID)
         /\ ~addressEqual(m.Observers[c.NodeID], c.Address)
    ELSE FALSE

isAddingExistingMember_noWitnessScan(m, c) ==
  IF c.Type = AddNode /\ Has(m.Addresses, c.NodeID) THEN TRUE
  ELSE IF c.Type = AddObserver /\ Has(m.Observers, c.NodeID) THEN TRUE
  ELSE IF c.Type = AddWitness /\ Has(m.Witnesses, c.NodeID) THEN TRUE
  ELSE IF isPromotingObserver(m, c) THEN FALSE
  ELSE IF c.Type = AddNode \/ c.Type = AddObserver \/ c.Type = AddWitness
    THEN \/ \E n \in DOMAIN m.Addresses : addressEqual(m.Addresses[n], c.Address)
         \/ \E n \in DOMAIN m.Observers : addressEqual(m.Observers[n], c.Address)
  ELSE FALSE

isAddingExistingMember_noObserverScan(m, c) ==
  IF c.Type = AddNode /\ Has(m.Addresses, c.NodeID) THEN TRUE
  ELSE IF c.Type = AddObserver /\ Has(m.Observers, c.NodeID) THEN TRUE
  ELSE IF c.Type = AddWitness /\ Has(m.Witnesses, c.NodeID) THEN TRUE
  ELSE IF isPromotingObserver(m, c) THEN FALSE
  ELSE IF c.Type = AddNode \/ c.Type = AddObserver \/ c.Type = AddWitness
    THEN \/ \E n \in DOMAIN m.Addresses : addressEqual(m.Addresses[n], c.Address)
         \/ \E n \in DOMAIN m.Witnesses : addressEqual(m.Witnesses[n], c.Address)
  ELSE FALSE

isAddingExistingMember(m, c) ==
  IF c.Type = AddNode /\ Has(m.Addresses, c.NodeID) THEN TRUE
  ELSE IF c.Type = AddObserver /\ Has(m.Observers, c.NodeID) THEN TRUE
  ELSE IF c.Type = AddWitness /\ Has(m.Witnesses, c.NodeID) THEN TRUE
  ELSE IF isPromotingObserver(m, c) THEN FALSE
  ELSE IF c.Type = AddNode \/ c.Type = AddObserver \/ c.Type = AddWitness
    THEN \/ \E n \in DOMAIN m.Addresses : addressEqual(m.Addresses[n], c.Address)
         \/ \E n \in DOMAIN m.Observers : addressEqual(m.Observers[n], c.Address)
         \/ \E n \in DOMAIN m.Witnesses : addressEqual(m.Witnesses[n], c.Address)
  ELSE FALSE

isAddingNodeAsObserver(m, c) ==
  IF c.Type = AddObserver THEN Has(m.Addresses, c.NodeID) ELSE FALSE

isAddingNodeAsWitness(m, c) ==
  IF c.Type = AddWitness THEN Has(m.Addresses, c.NodeID) ELSE FALSE

isAddingWitnessAsObserver(m, c) ==
  IF c.Type = AddObserver THEN Has(m.Witnesses, c.NodeID) ELSE FALSE

isAddingWitnessAsNode_wrongMap(m, c) ==
  IF c.Type = AddNode THEN Has(m.Addresses, c.NodeID) ELSE FALSE

isAddingWitnessAsNode(m, c) ==
  IF c.Type = AddNode THEN Has(m.Witnesses, c.NodeID) ELSE FALSE

isAddingObserverAsWitness_wrongType(m, c) ==
  IF c.Type = AddObserver THEN Has(m.Observers, c.NodeID) ELSE FALSE

isAddingObserverAsWitness(m, c) ==
  IF c.Type = AddWitness THEN Has(m.Observers, c.NodeID) ELSE FALSE

isDeletingOnlyNode_noVoters(m, c) ==
  IF c.Type = RemoveNode /\ Cardinality(DOMAIN m.Addresses) = 0
    THEN Has(m.Addresses, c.NodeID)
    ELSE FALSE

isDeletingOnlyNode(m, c) ==
  IF c.Type = RemoveNode /\ Cardinality(DOMAIN m.Addresses) = 1
    THEN Has(m.Addresses, c.NodeID)
    ELSE FALSE

\* ------------------------------------------------------ applyConfigChange
PanicNotSupposed == "not suppose to reach here"
PanicUnknownType == "unknown config change type"
PanicUnknownCCType == "unknown cc.Type value"
PanicUnknownReason == "config change rejected for unknown reasons"

Done(m) == [m |-> m, panic |-> NoPanic]
Abort(m, msg) == [m |-> m, panic |-> msg]

stampConfigChangeId_keep(m, idx) == m

stampConfigChangeId(m, idx) == [m EXCEPT !.ConfigChangeId = idx]

applyAddNode_keepObserver(m, c) ==
  IF Has(m.Witnesses, c.NodeID)
    THEN Abort(m, PanicNotSupposed)
    ELSE Done([m EXCEPT !.Addresses = MapPut(@, c.NodeID, c.Address)])

\* the Observers map is emptied instead of losing one key
applyAddNode_clearObservers(m, c) ==
  LET m1 == [m EXCEPT !.Observers = EmptyMap]
  IN  IF Has(m1.Witnesses, c.NodeID)
        THEN Abort(m1, PanicNotSupposed)
        ELSE Done([m1 EXCEPT !.Addresses = MapPut(@, c.NodeID, c.Address)])

applyAddNode(m, c) ==
  LET m1 == [m EXCEPT !.Observers = MapDelete(@, c.NodeID)]
  IN  IF Has(m1.Witnesses, c.NodeID)
        THEN Abort(m1, PanicNotSupposed)
        ELSE Done([m1 EXCEPT !.Addresses = MapPut(@, c.NodeID, c.Address)])

applyAddObserver(m, c) ==
  IF Has(m.Addresses, c.NodeID)
    THEN Abort(m, PanicNotSupposed)
    ELSE Done([m EXCEPT !.Observers = MapPut(@, c.NodeID, c.Address)])

applyAddWitness(m, c) ==
  IF Has(m.Addresses, c.NodeID) THEN Abort(m, PanicNotSupposed)
  ELSE IF Has(m.Observers, c.NodeID) THEN Abort(m, PanicNotSupposed)
  ELSE Done([m EXCEPT !.Witnesses = MapPut(@, c.NodeID, c.Address)])

applyRemoveNode_keepWitness(m, c) ==
  Done([m EXCEPT !.Addresses = MapDelete(@, c.NodeID),
                 !.Observers = MapDelete(@, c.NodeID),
                 !.Removed = @ \cup {c.NodeID}])

applyRemoveNode(m, c) ==
  Done([m EXCEPT !.Addresses = MapDelete(@, c.NodeID),
                 !.Observers = MapDelete(@, c.NodeID),
                 !.Witnesses = MapDelete(@, c.NodeID),
                 !.Removed = @ \cup {c.NodeID}])

applyConfigChange_defaultReturns(m, c, idx) ==
  LET m0 == stampConfigChangeId(m, idx)
  IN  CASE c.Type = AddNode -> applyAddNode(m0, c)
        [] c.Type = AddObserver -> applyAddObserver(m0, c)
        [] c.Type = AddWitness -> applyAddWitness(m0, c)
        [] c.Type = RemoveNode -> applyRemoveNode(m0, c)
        [] OTHER -> Done(m0)

applyConfigChange(m, c, idx) ==
  LET m0 == stampConfigChangeId(m, idx)
  IN  CASE c.Type = AddNode -> applyAddNode(m0, c)
        [] c.Type = AddObserver -> applyAddObserver(m0, c)
        [] c.Type = AddWitness -> applyAddWitness(m0, c)
        [] c.Type = RemoveNode -> applyRemoveNode(m0, c)
        [] OTHER -> Abort(m0, PanicUnknownType)

\* ----------------------------------------------------- handleConfigChange
\* the ten booleans computed at the top of handleConfigChange
checks(m, ord, c) ==
  [ nodeBecomingObserver |-> isAddingNodeAsObserver(m, c),
    nodeBecomingWitness |-> isAddingNodeAsWitness(m, c),
    witnessBecomingNode |-> isAddingWitnessAsNode(m, c),
    witnessBecomingObserver |-> isAddingWitnessAsObserver(m, c),
    observerBecomingWitness |-> isAddingObserverAsWitness(m, c),
    alreadyMember |-> isAddingExistingMember(m, c),
    addRemovedNode |-> isAddingRemovedNode(m, c),
    upToDateCC |-> isConfChangeUpToDate(m, ord, c),
    deleteOnlyNode |-> isDeletingOnlyNode(m, c),
    invalidPromotion |-> isInvalidObserverPromotion(m, c) ]

isAccepted(f) ==
  /\ f.upToDateCC
  /\ ~f.addRemovedNode
  /\ ~f.alreadyMember
  /\ ~f.nodeBecomingObserver
  /\ ~f.nodeBecomingWitness
  /\ ~f.witnessBecomingNode
  /\ ~f.witnessBecomingObserver
  /\ ~f.observerBecomingWitness
  /\ ~f.deleteOnlyNode
  /\ ~f.invalidPromotion

RejOutOfOrder == "rej out-of-order ConfChange"
RejAddRemoved == "rej add removed"
RejAddExist == "rej add exist"
RejAddExistAsObserver == "rej add exist as observer"
RejAddExistAsWitness == "rej add exist as witness"
RejAddWitnessAsNode == "rej add witness as node"
RejAddWitnessAsObserver == "rej add witness as observer"
RejAddObserverAsWitness == "rej add observer as witness"
RejRemoveOnlyNode == "rej remove the only node"
RejInvalidPromotion == "rej invalid observer promotion"
NoLine == "nothing logged"

\* the else-if chain of the rejected branch; NoLine is the final else
rejectLine_existFirst(f) ==
  IF ~f.upToDateCC THEN RejOutOfOrder
  ELSE IF f.alreadyMember THEN RejAddExist
  ELSE IF f.addRemovedNode THEN RejAddRemoved
  ELSE IF f.nodeBecomingObserver THEN RejAddExistAsObserver
  ELSE IF f.nodeBecomingWitness THEN RejAddExistAsWitness
  ELSE IF f.witnessBecomingNode THEN RejAddWitnessAsNode
  ELSE IF f.witnessBecomingObserver THEN RejAddWitnessAsObserver
  ELSE IF f.observerBecomingWitness THEN RejAddObserverAsWitness
  ELSE IF f.deleteOnlyNode THEN RejRemoveOnlyNode
  ELSE IF f.invalidPromotion THEN RejInvalidPromotion
  ELSE NoLine

rejectLine(f) ==
  IF ~f.upToDateCC THEN RejOutOfOrder
  ELSE IF f.addRemovedNode THEN RejAddRemoved
  ELSE IF f.alreadyMember THEN RejAddExist
  ELSE IF f.nodeBecomingObserver THEN RejAddExistAsObserver
  ELSE IF f.nodeBecomingWitness THEN RejAddExistAsWitness
  ELSE IF f.witnessBecomingNode THEN RejAddWitnessAsNode
  ELSE IF f.witnessBecomingObserver THEN RejAddWitnessAsObserver
  ELSE IF f.observerBecomingWitness THEN RejAddObserverAsWitness
  ELSE IF f.deleteOnlyNode THEN RejRemoveOnlyNode
  ELSE IF f.invalidPromotion THEN RejInvalidPromotion
  ELSE NoLine

appliedLine(c) ==
  CASE c.Type = AddNode -> "applied ADD"
    [] c.Type = RemoveNode -> "applied REMOVE"
    [] c.Type = AddObserver -> "applied ADD OBSERVER"
    [] c.Type = AddWitness -> "applied ADD WITNESS"
    [] OTHER -> NoLine

Outcome(m, acc, line, p) ==
  [members |-> m, accepted |-> acc, reason |-> line, panic |-> p]

\* a call that panics returns nothing: accepted is reported FALSE with the panic
handleConfigChange_applyBeforeCheck(m, ord, c, idx) ==
  LET f == checks(m, ord, c)
      acc == isAccepted(f)
      r == applyConfigChange(m, c, idx)
  IN  IF r.panic # NoPanic THEN Outcome(r.m, FALSE, NoLine, r.panic)
      ELSE IF acc THEN Outcome(r.m, TRUE, appliedLine(c), NoPanic)
      ELSE Outcome(r.m, FALSE, rejectLine(f), NoPanic)

\* handleConfigChange from line 309 on, given the ten booleans f
decide(m, f, c, idx) ==
  LET acc == isAccepted(f)
  IN  IF acc
        THEN LET r == applyConfigChange(m, c, idx)
             IN  IF r.panic # NoPanic
                   THEN Outcome(r.m, FALSE, NoLine, r.panic)
                 ELSE IF appliedLine(c) = NoLine
                   THEN Outcome(r.m, FALSE, NoLine, PanicUnknownCCType)
                 ELSE Outcome(r.m, TRUE, appliedLine(c), NoPanic)
        ELSE IF rejectLine(f) = NoLine
               THEN Outcome(m, FALSE, NoLine, PanicUnknownReason)
               ELSE Outcome(m, FALSE, rejectLine(f), NoPanic)

handleConfigChange(m, ord, c, idx) == decide(m, checks(m, ord, c), c, idx)

\* ------------------------------------- handleConfigChange, range by range
\* the orders in which a range loop can visit the keys of a Go map
RangeOrders(keys) ==
  { s \in [1..Cardinality(keys) -> keys] :
      \A i, j \in 1..Cardinality(keys) : i # j => s[i] # s[j] }

\* one order for each of the three range loops of isAddingExistingMember
RangeChoices(m) ==
  [ Addresses : RangeOrders(DOMAIN m.Addresses),
    Observers : RangeOrders(DOMAIN m.Observers),
    Witnesses : RangeOrders(DOMAIN m.Witnesses) ]

rangeFindsAddress_firstOnly(f, iter, addr) ==
  iter # <<>> /\ addressEqual(f[Head(iter)], addr)

\* for _, addr := range f { if addressEqual(addr, cc.Address) { return true } }
RECURSIVE rangeFindsAddress(_, _, _)
rangeFindsAddress(f, iter, addr) ==
  IF iter = <<>> THEN FALSE
  ELSE IF addressEqual(f[Head(iter)], addr) THEN TRUE
  ELSE rangeFindsAddress(f, Tail(iter), addr)

\* isAddingExistingMember with its range loops run in the orders it
isAddingExistingMemberRange(m, c, it) ==
  IF c.Type = AddNode /\ Has(m.Addresses, c.NodeID) THEN TRUE
  ELSE IF c.Type = AddObserver /\ Has(m.Observers, c.NodeID) THEN TRUE
  ELSE IF c.Type = AddWitness /\ Has(m.Witnesses, c.NodeID) THEN TRUE
  ELSE IF isPromotingObserver(m, c) THEN FALSE
  ELSE IF c.Type = AddNode \/ c.Type = AddObserver \/ c.Type = AddWitness
    THEN IF rangeFindsAddress(m.Addresses, it.Addresses, c.Address) THEN TRUE
         ELSE IF rangeFindsAddress(m.Observers, it.Observers, c.Address) THEN TRUE
         ELSE IF rangeFindsAddress(m.Witnesses, it.Witnesses, c.Address) THEN TRUE
         ELSE FALSE
  ELSE FALSE

handleConfigChangeRange(m, ord, c, idx, it) ==
  decide(m, [checks(m, ord, c) EXCEPT
               !.alreadyMember = isAddingExistingMemberRange(m, c, it)],
         c, idx)

\* ----------------------------------------------------------------- getHash
sortSlice_unsorted(vals) == vals

\* sort.Slice with less = vals[i] < vals[j]
RECURSIVE sortSlice(_)
sortSlice(vals) ==
  IF vals = <<>> THEN <<>>
  ELSE LET x == Head(vals)
           rest == sortSlice(Tail(vals))
       IN  SelectSeq(rest, LAMBDA y : y < x) \o <<x>>
             \o SelectSeq(rest, LAMBDA y : ~(y < x))

\* binary.LittleEndian.PutUint64 into n = 8 bytes
RECURSIVE littleEndian(_, _)
littleEndian(v, n) ==
  IF n = 0 THEN <<>> ELSE <<v % 256>> \o littleEndian(v \div 256, n - 1)

PutUint64(v) == littleEndian(v, 8)

\* the loop of hash.Write calls
RECURSIVE hashWrite(_)
hashWrite(vals) ==
  IF vals = <<>> THEN <<>> ELSE PutUint64(Head(vals)) \o hashWrite(Tail(vals))

\* getHash up to the md5 sum: the bytes written to the hash when the range
\* loop visits the voters in the order iter; the value returned is a function
\* (md5, first 8 bytes) of these bytes
getHash(m, iter) ==
  LET vals == sortSlice(iter) \o <<m.ConfigChangeId>>
  IN  hashWrite(vals)

\* ------------------------------------------------------------ the machine
NoChange ==
  [Type |-> UnknownType, NodeID |-> 0, Address |-> <<>>,
   ConfigChangeId |-> 0, Initialize |-> FALSE]

NoPeer ==
  [members |-> newMembership, accepted |-> FALSE, reason |-> NoLine,
   panic |-> NoPanic]

NoDigests == [a |-> <<>>, b |-> <<>>]

\* ------------------------------------------------------ maps as references
\* a Go map value is a reference: two pb.Membership values whose field holds
\* the same map see each other's writes.  heap[g] holds the four maps made by
\* the g-th group of make calls, and a pb.Membership value names, field by
\* field, the group its map was made in.
MaxMake == 4
Groups == 1..MaxMake
MapFields == {"Addresses", "Observers", "Witnesses", "Removed"}

\* a group no make call has returned yet, or that nothing refers to any more
Free ==
  [ made |-> FALSE, Addresses |-> EmptyMap, Observers |-> EmptyMap,
    Witnesses |-> EmptyMap, Removed |-> EmptyMap ]

NoHeap == [g \in Groups |-> Free]

\* a pb.Membership value all of whose maps were made in group g
MadeIn(g, id) ==
  [ Addresses |-> g, Observers |-> g, Witnesses |-> g, Removed |-> g,
    ConfigChangeId |-> id ]

\* the zero pb.Membership: nil maps
NoValue == MadeIn(0, 0)

\* what the caller holds: the value, where it came from ("built" by the
\* caller, or returned by "get" or "getMembership"), whether the caller has
\* passed it to set and whether it has written to one of its maps since
Holds(v, origin) ==
  [value |-> v, from |-> origin, passed |-> FALSE, written |-> FALSE]

Nobody == Holds(NoValue, "nothing")

\* the specifications that do not follow the maps one by one
MapsNotFollowed == heap = NoHeap /\ store = NoValue /\ caller = Nobody

\* nothing has been called yet
NoCallYet ==
  /\ pc = "idle"
  /\ pre = newMembership
  /\ cc = NoChange
  /\ index = 0
  /\ accepted = FALSE
  /\ reason = NoLine
  /\ panicked = NoPanic
  /\ lastAcceptedIndex = 0
  /\ orderHistory = [old |-> {}, used |-> {}]

Init ==
  /\ members = newMembership
  /\ ordered \in BOOLEAN
  /\ NoCallYet
  /\ peer = NoPeer
  /\ digests = NoDigests
  /\ MapsNotFollowed

\* log indexes the next committed config change can carry: above every
\* earlier one, directly after it or after one entry of another kind
NextIndexes == { i \in {index + 1, index + 2} : i <= MaxIndex }

\* the state machine applies one committed config change drawn from changes
Handle(changes) ==
  /\ pc = "idle"
  /\ \E c \in changes, idx \in NextIndexes :
       \E o \in {handleConfigChange(members, ordered, c, idx)} :
         /\ members' = o.members
         /\ pre' = members
         /\ cc' = c
         /\ index' = idx
         /\ accepted' = o.accepted
         /\ reason' = o.reason
         /\ panicked' = o.panic
         /\ lastAcceptedIndex' = IF o.accepted THEN idx ELSE lastAcceptedIndex
  /\ pc' = "returned"
  /\ UNCHANGED << ordered, orderHistory, others >>

HandleConfigChange == Handle(ConfigChanges)

\* the caller consumes the returned value and moves to the next log entry;
\* a panic ends the process
ConsumeResult ==
  /\ pc = "returned"
  /\ panicked = NoPanic
  /\ pc' = "idle"
  /\ pre' = members
  /\ cc' = NoChange
  /\ accepted' = FALSE
  /\ reason' = NoLine
  /\ UNCHANGED << members, ordered, index, panicked, lastAcceptedIndex >>

TakeResult == ConsumeResult /\ UNCHANGED << orderHistory, others >>

Next == HandleConfigChange \/ TakeResult

Spec == Init /\ [][Next]_vars

\* ------------------------------------------------- two stores and getHash
\* snapshots a store can hold after set: voters keys under one address,
\* with or without observers, witnesses and removed NodeIDs beside them
HashSnapshots ==
  { [ Addresses |-> [n \in keys |-> addr],
      Observers |-> IF rest THEN [n \in NodeIDs \ keys |-> <<"b">>] ELSE EmptyMap,
      Witnesses |-> IF rest THEN [n \in keys |-> <<"b">>] ELSE EmptyMap,
      Removed |-> IF rest THEN NodeIDs ELSE {},
      ConfigChangeId |-> id ] :
      keys \in SUBSET NodeIDs, addr \in {<<"a">>, <<" ", "A", " ">>},
      rest \in BOOLEAN, id \in 0..MaxIndex }

InitHash ==
  /\ members \in HashSnapshots
  /\ peer \in { [NoPeer EXCEPT !.members = s] : s \in HashSnapshots }
  /\ ordered = FALSE
  /\ NoCallYet
  /\ digests = NoDigests
  /\ MapsNotFollowed

\* both stores compute their digest, each range loop in an order of its own
GetHash ==
  /\ pc = "idle"
  /\ \E iterA \in RangeOrders(DOMAIN members.Addresses),
        iterB \in RangeOrders(DOMAIN peer.members.Addresses) :
       digests' = [a |-> getHash(members, iterA),
                   b |-> getHash(peer.members, iterB)]
  /\ pc' = "hashed"
  /\ UNCHANGED << members, ordered, pre, cc, index, accepted, reason,
                  panicked, lastAcceptedIndex, orderHistory, peer >>
  /\ UNCHANGED storeVars

NextHash == GetHash

SpecHash == InitHash /\ [][NextHash]_vars

\* bootstrap requests, and requests whose proposer saw the current
\* ConfigChangeId or none yet
ReplicaChanges(current) ==
  [ Type : Types, NodeID : NodeIDs, Address : Addrs,
    ConfigChangeId : {0}, Initialize : {TRUE} ]
  \cup
  [ Type : Types, NodeID : NodeIDs, Address : Addrs,
    ConfigChangeId : {0, current}, Initialize : {FALSE} ]

\* ------------------------------------------------------------ two replicas
\* two stores with the same ordered flag apply the same committed change at
\* the same log index; every range loop of either runs in an order of its own
HandleOnReplicas ==
  /\ pc = "idle"
  /\ \E itA \in RangeChoices(members), itB \in RangeChoices(peer.members) :
       \E c \in ReplicaChanges(members.ConfigChangeId), idx \in NextIndexes :
         \E o \in {handleConfigChangeRange(members, ordered, c, idx, itA)},
            p \in {handleConfigChangeRange(peer.members, ordered, c, idx, itB)} :
           /\ members' = o.members
           /\ pre' = members
           /\ cc' = c
           /\ index' = idx
           /\ accepted' = o.accepted
           /\ reason' = o.reason
           /\ panicked' = o.panic
           /\ lastAcceptedIndex' = IF o.accepted THEN idx ELSE lastAcceptedIndex
           /\ peer' = p
  /\ pc' = "returned"
  /\ UNCHANGED << ordered, orderHistory, digests, heap, store, caller >>

\* both replicas are asked for their digest after the change
HashOnReplicas ==
  /\ pc = "returned"
  /\ digests = NoDigests
  /\ \E iterA \in RangeOrders(DOMAIN members.Addresses),
        iterB \in RangeOrders(DOMAIN peer.members.Addresses) :
       digests' = [a |-> getHash(members, iterA),
                   b |-> getHash(peer.members, iterB)]
  /\ UNCHANGED << members, ordered, pc, pre, cc, index, accepted, reason,
                  panicked, lastAcceptedIndex, orderHistory, peer >>
  /\ UNCHANGED storeVars

\* both callers consume their result; a panic ends the process
TakeReplicaResults ==
  /\ ConsumeResult
  /\ peer.panic = NoPanic
  /\ peer' = [peer EXCEPT !.accepted = FALSE, !.reason = NoLine]
  /\ digests' = NoDigests
  /\ UNCHANGED << orderHistory, heap, store, caller >>

NextReplicas == HandleOnReplicas \/ HashOnReplicas \/ TakeReplicaResults

SpecReplicas == Init /\ [][NextReplicas]_vars

\* ---------------------------------------- the machine with its order history
\* requests of the four kinds under one address (isConfChangeUpToDate reads
\* neither the kind nor the address)
OrderedChanges ==
  { c \in ConfigChanges : c.Type \in KnownTypes /\ c.Address = <<"a">> }

InitOrdered == Init /\ ordered

HandleOrderedChange == Handle(OrderedChanges)

\* the caller consumes the result and notes which ConfigChangeId was replaced
\* and which one an accepted non-Initialize request carried
RecordResult ==
  /\ ConsumeResult
  /\ orderHistory' =
       [ old |-> orderHistory.old \cup
                   (IF members.ConfigChangeId # pre.ConfigChangeId
                      THEN {pre.ConfigChangeId} ELSE {}),
         used |-> orderHistory.used \cup
                    (IF accepted /\ ~cc.Initialize
                       THEN {cc.ConfigChangeId} ELSE {}) ]
  /\ UNCHANGED others

NextOrdered == HandleOrderedChange \/ RecordResult

SpecOrder == InitOrdered /\ [][NextOrdered]_vars

\* ------------------------------------------------ set, get, getMembership
\* the four maps of a group right after make
NewMaps ==
  [ made |-> TRUE, Addresses |-> EmptyMap, Observers |-> EmptyMap,
    Witnesses |-> EmptyMap, Removed |-> EmptyMap ]

\* make: the first group not in use
make(h) ==
  CHOOSE g \in Groups : ~h[g].made /\ \A x \in Groups : x < g => h[x].made

\* what a pb.Membership value holds: its maps as they are now (Removed is a
\* map[uint64]bool) and its ConfigChangeId
Contents(h, v) ==
  [ Addresses |-> h[v.Addresses].Addresses,
    Observers |-> h[v.Observers].Observers,
    Witnesses |-> h[v.Witnesses].Witnesses,
    Removed |-> h[v.Removed].Removed,
    ConfigChangeId |-> v.ConfigChangeId ]

\* the snapshot as the handlers read it: Removed by its keys
Snapshot(h, v) == [Contents(h, v) EXCEPT !.Removed = DOMAIN @]

\* c := m, the maps of m themselves
deepCopyMembership_sameMaps(h, m) == [heap |-> h, value |-> m]

\* the range loop over m.Witnesses is missing
deepCopyMembership_noWitnesses(h, m) ==
  LET g == make(h)
      from == Contents(h, m)
  IN [ heap |-> [h EXCEPT ![g] =
                   [ made |-> TRUE,
                     Addresses |-> from.Addresses,
                     Removed |-> [nid \in DOMAIN from.Removed |-> TRUE],
                     Observers |-> from.Observers,
                     Witnesses |-> EmptyMap ]],
       value |-> MadeIn(g, m.ConfigChangeId) ]

\* four maps are made and filled entry by entry, every Removed key with true
deepCopyMembership(h, m) ==
  LET g == make(h)
      from == Contents(h, m)
  IN [ heap |-> [h EXCEPT ![g] =
                   [ made |-> TRUE,
                     Addresses |-> [nid \in DOMAIN from.Addresses |-> from.Addresses[nid]],
                     Removed |-> [nid \in DOMAIN from.Removed |-> TRUE],
                     Observers |-> [nid \in DOMAIN from.Observers |-> from.Observers[nid]],
                     Witnesses |-> [nid \in DOMAIN from.Witnesses |-> from.Witnesses[nid]] ]],
       value |-> MadeIn(g, m.ConfigChangeId) ]

\* m.members = &cm: value is what m.members points to afterwards
set(h, n) == deepCopyMembership(h, n)

\* members, observers, witnesses, removed and the ConfigChangeId; the
\* struct{}{} of the removed set is written TRUE
get(h, m) ==
  LET g == make(h)
      from == Contents(h, m)
  IN [ heap |-> [h EXCEPT ![g] =
                   [ made |-> TRUE,
                     Addresses |-> [nid \in DOMAIN from.Addresses |-> from.Addresses[nid]],
                     Observers |-> [nid \in DOMAIN from.Observers |-> from.Observers[nid]],
                     Removed |-> [nid \in DOMAIN from.Removed |-> TRUE],
                     Witnesses |-> [nid \in DOMAIN from.Witnesses |-> from.Witnesses[nid]] ]],
       value |-> MadeIn(g, m.ConfigChangeId) ]

getMembership(h, m) == deepCopyMembership(h, m)

\* the groups a value refers to
GroupsOf(v) == {v.Addresses, v.Observers, v.Witnesses, v.Removed} \ {0}

\* garbage collection: a group that neither the store nor the caller refers
\* to is gone
Collect(h, s, v) ==
  [g \in Groups |-> IF g \in GroupsOf(s) \cup GroupsOf(v) THEN h[g] ELSE Free]

\* handleConfigChange writes through m.members: the maps are updated in
\* place, the ConfigChangeId field in the struct
WriteThrough(h, s, after) ==
  [h EXCEPT
     ![s.Addresses].Addresses = after.Addresses,
     ![s.Observers].Observers = after.Observers,
     ![s.Witnesses].Witnesses = after.Witnesses,
     ![s.Removed].Removed =
        [nid \in after.Removed |-> IF nid \in DOMAIN @ THEN @[nid] ELSE TRUE]]

\* ------------------------------------------- the store and one of its callers
\* the values a caller passes to set: voters under "a", observers and
\* witnesses under "b", removed NodeIDs marked true or false
CallerValues ==
  { [ Addresses |-> [n \in keys |-> <<"a">>],
      Observers |-> IF rest THEN [n \in NodeIDs \ keys |-> <<"b">>] ELSE EmptyMap,
      Witnesses |-> IF rest THEN [n \in keys |-> <<"b">>] ELSE EmptyMap,
      Removed |-> IF rest THEN [n \in NodeIDs |-> mark] ELSE EmptyMap,
      ConfigChangeId |-> id ] :
      keys \in {{1}, NodeIDs}, rest \in BOOLEAN, mark \in BOOLEAN,
      id \in {MaxIndex} }

\* the writes a caller makes to a map it holds
AddressFields == {"Addresses", "Observers", "Witnesses"}

CallerWrites(maps) ==
  { [maps EXCEPT ![f] = MapPut(@, nid, <<"b">>)] :
      f \in AddressFields, nid \in {1} }
  \cup { [maps EXCEPT ![f] = MapDelete(@, nid)] :
      f \in AddressFields \cup {"Removed"}, nid \in {1} }
  \cup { [maps EXCEPT !.Removed = MapPut(@, nid, b)] :
      nid \in {1}, b \in BOOLEAN }

StoreChanges ==
  [ Type : KnownTypes, NodeID : NodeIDs, Address : {<<"a">>},
    ConfigChangeId : {0}, Initialize : {FALSE} ]

\* the log index of every request made to this store (it is logged, and an
\* accepted request leaves it as the ConfigChangeId)
StoreIndex == 1

\* between calls of handleConfigChange nothing is in flight
NothingInFlight ==
  /\ pre' = members'
  /\ cc' = NoChange
  /\ accepted' = FALSE
  /\ reason' = NoLine
  /\ UNCHANGED << ordered, index, panicked, lastAcceptedIndex, orderHistory,
                  peer, digests >>

InitStore ==
  /\ members = newMembership
  /\ ordered = FALSE
  /\ NoCallYet
  /\ peer = NoPeer
  /\ digests = NoDigests
  /\ heap = [NoHeap EXCEPT ![1] = NewMaps]
  /\ store = MadeIn(1, 0)
  /\ caller = Nobody

\* a caller builds a pb.Membership value of its own
CallerBuilds ==
  /\ pc # "returned"
  /\ \E n \in CallerValues :
       LET h == Collect(heap, store, NoValue)
           g == make(h)
       IN /\ heap' = [h EXCEPT ![g] = [f \in DOMAIN NewMaps |->
                                       IF f = "made" THEN TRUE ELSE n[f]]]
          /\ caller' = Holds(MadeIn(g, n.ConfigChangeId), "built")
  /\ pc' = "built"
  /\ members' = Snapshot(heap', store)
  /\ UNCHANGED store
  /\ NothingInFlight

\* m.set(n) with the value the caller holds; a caller passes a value on
\* before it writes to it
Set ==
  /\ pc # "returned"
  /\ caller # Nobody
  /\ ~caller.written
  /\ \E r \in {set(heap, caller.value)} :
       /\ store' = r.value
       /\ heap' = Collect(r.heap, r.value, caller.value)
  /\ pc' = IF pc \in {"get", "getMembership"} THEN "restored" ELSE "set"
  /\ members' = Snapshot(heap', store')
  /\ caller' = [caller EXCEPT !.passed = TRUE]
  /\ NothingInFlight

\* m.get(): the caller drops what it held and keeps the result
Get ==
  /\ pc # "returned"
  /\ \E r \in {get(Collect(heap, store, NoValue), store)} :
       /\ caller' = Holds(r.value, "get")
       /\ heap' = r.heap
  /\ pc' = "get"
  /\ members' = Snapshot(heap', store)
  /\ UNCHANGED store
  /\ NothingInFlight

\* m.getMembership(): the caller drops what it held and keeps the result
GetMembership ==
  /\ pc # "returned"
  /\ \E r \in {getMembership(Collect(heap, store, NoValue), store)} :
       /\ caller' = Holds(r.value, "getMembership")
       /\ heap' = r.heap
  /\ pc' = "getMembership"
  /\ members' = Snapshot(heap', store)
  /\ UNCHANGED store
  /\ NothingInFlight

\* the caller writes to a map of the value it holds
CallerWritesMap ==
  /\ pc # "returned"
  /\ caller # Nobody
  /\ ~caller.written
  /\ \E f \in MapFields :
       \E w \in CallerWrites(Contents(heap, caller.value)) :
         /\ w[f] # Contents(heap, caller.value)[f]
         /\ heap' = [heap EXCEPT ![caller.value[f]][f] = w[f]]
  /\ caller' = [caller EXCEPT !.written = TRUE]
  /\ pc' = "written"
  /\ members' = Snapshot(heap', store)
  /\ UNCHANGED store
  /\ NothingInFlight

\* handleConfigChange on the store, reading and writing the maps it holds
StoreHandle ==
  /\ pc # "returned"
  /\ \E c \in StoreChanges, idx \in {StoreIndex} :
       \E o \in {handleConfigChange(members, ordered, c, idx)} :
         /\ heap' = WriteThrough(heap, store, o.members)
         /\ store' = [store EXCEPT !.ConfigChangeId = o.members.ConfigChangeId]
         /\ pre' = members
         /\ cc' = c
         /\ index' = idx
         /\ accepted' = o.accepted
         /\ reason' = o.reason
         /\ panicked' = o.panic
         /\ lastAcceptedIndex' = IF o.accepted THEN idx ELSE lastAcceptedIndex
  /\ pc' = "returned"
  /\ members' = Snapshot(heap', store')
  /\ UNCHANGED << ordered, orderHistory, peer, digests, caller >>

NextStore ==
  \/ CallerBuilds
  \/ Set
  \/ Get
  \/ GetMembership
  \/ CallerWritesMap
  \/ StoreHandle
  \/ TakeResult

SpecStore == InitStore /\ [][NextStore]_vars

\* the last call returned (did not panic)
Returned == pc = "returned" /\ panicked = NoPanic

\* ---------------------------------------------------------------- claims
\* what the documentation says about addresses, independent of addressEqual:
\* "a" and " A " name the same endpoint, "b" another one
Endpoint(a) == IF a \in { <<"a">>, <<" ", "A", " ">> } THEN "a" ELSE "b"
SameAddress(a, b) == Endpoint(a) = Endpoint(b)

RoleKeys(m) == DOMAIN m.Addresses \cup DOMAIN m.Observers \cup DOMAIN m.Witnesses
IsAddKind(r) == r.Type \in {AddNode, AddObserver, AddWitness}
RejectLines ==
  { RejOutOfOrder, RejAddRemoved, RejAddExist, RejAddExistAsObserver,
    RejAddExistAsWitness, RejAddWitnessAsNode, RejAddWitnessAsObserver,
    RejAddObserverAsWitness, RejRemoveOnlyNode, RejInvalidPromotion }

\* the predicates of the documentation, over a snapshot s and a request r
stale(s, ord, r) == ord /\ ~r.Initialize /\ r.ConfigChangeId # s.ConfigChangeId
targetRemoved(s, r) == IsAddKind(r) /\ r.NodeID \in s.Removed
promotingObserver(s, r) ==
  /\ r.Type = AddNode
  /\ r.NodeID \in DOMAIN s.Observers
  /\ SameAddress(s.Observers[r.NodeID], r.Address)
invalidPromotion(s, r) ==
  /\ r.Type = AddNode
  /\ r.NodeID \in DOMAIN s.Observers
  /\ ~SameAddress(s.Observers[r.NodeID], r.Address)
alreadyMember(s, r) ==
  /\ ~promotingObserver(s, r)
  /\ \/ r.Type = AddNode /\ r.NodeID \in DOMAIN s.Addresses
     \/ r.Type = AddObserver /\ r.NodeID \in DOMAIN s.Observers
     \/ r.Type = AddWitness /\ r.NodeID \in DOMAIN s.Witnesses
     \/ /\ IsAddKind(r)
        /\ \/ \E n \in DOMAIN s.Addresses : SameAddress(s.Addresses[n], r.Address)
           \/ \E n \in DOMAIN s.Observers : SameAddress(s.Observers[n], r.Address)
           \/ \E n \in DOMAIN s.Witnesses : SameAddress(s.Witnesses[n], r.Address)
observerOverVoter(s, r) == r.Type = AddObserver /\ r.NodeID \in DOMAIN s.Addresses
witnessOverVoter(s, r) == r.Type = AddWitness /\ r.NodeID \in DOMAIN s.Addresses
witnessToVoter(s, r) == r.Type = AddNode /\ r.NodeID \in DOMAIN s.Witnesses
witnessToObserver(s, r) == r.Type = AddObserver /\ r.NodeID \in DOMAIN s.Witnesses
observerToWitness(s, r) == r.Type = AddWitness /\ r.NodeID \in DOMAIN s.Observers
lastVoterRemoval(s, r) == r.Type = RemoveNode /\ DOMAIN s.Addresses = {r.NodeID}

\* C1: no NodeID is a key of more than one of Addresses, Observers and
\* Witnesses, in every state reached through handleConfigChange
C1_Exclusivity ==
  /\ DOMAIN members.Addresses \cap DOMAIN members.Observers = {}
  /\ DOMAIN members.Addresses \cap DOMAIN members.Witnesses = {}
  /\ DOMAIN members.Observers \cap DOMAIN members.Witnesses = {}

\* an observer has just been promoted to voter next to another member
C1_Witness ==
  /\ Returned /\ accepted /\ cc.Type = AddNode
  /\ cc.NodeID \in DOMAIN pre.Observers
  /\ Cardinality(RoleKeys(members)) = 2

\* C2: a call that returns false leaves Addresses, Observers, Witnesses,
\* Removed and ConfigChangeId exactly as they were at entry
C2_RejectionNoOp == (Returned /\ ~accepted) => members = pre

\* a request that would have changed a populated snapshot was rejected
C2_Witness ==
  /\ Returned /\ ~accepted /\ reason = RejRemoveOnlyNode
  /\ pre.ConfigChangeId # index
  /\ pre.Observers # EmptyMap

\* C3: Removed only grows, and no NodeID in Removed is a key of Addresses,
\* Observers or Witnesses
C3_MonotonicRetirement ==
  /\ pc = "returned" => pre.Removed \subseteq members.Removed
  /\ members.Removed \cap RoleKeys(members) = {}

\* a retired NodeID asked to come back as observer and was turned away
C3_Witness ==
  /\ Returned /\ ~accepted /\ reason = RejAddRemoved
  /\ cc.Type = AddObserver
  /\ cc.NodeID \in members.Removed

\* C4: RemoveNode of the single remaining voter is rejected whatever
\* ConfigChangeId, Initialize and ordered are, and Addresses, once non-empty,
\* is non-empty after every later call
C4_NonDegeneracy ==
  /\ (pc = "returned" /\ cc.Type = RemoveNode
        /\ DOMAIN pre.Addresses = {cc.NodeID})
       => (panicked = NoPanic /\ ~accepted)
  /\ (pc = "returned" /\ pre.Addresses # EmptyMap)
       => members.Addresses # EmptyMap

\* the last of two voters was the target of a bootstrap-flagged RemoveNode
C4_Witness ==
  /\ Returned /\ cc.Type = RemoveNode /\ cc.Initialize
  /\ DOMAIN pre.Addresses = {cc.NodeID}
  /\ pre.Removed # {}
  /\ ~accepted

\* C5: an accepted call sets ConfigChangeId to its log index, a rejected one
\* leaves it; with increasing log indexes it strictly increases at every
\* accepted change and is the log index of the last accepted change
C5_ChangeOrder ==
  /\ (Returned /\ accepted) =>
       (members.ConfigChangeId = index /\ index > pre.ConfigChangeId)
  /\ (Returned /\ ~accepted) => members.ConfigChangeId = pre.ConfigChangeId
  /\ panicked = NoPanic => members.ConfigChangeId = lastAcceptedIndex

\* a change was accepted after a rejected one, so the order jumped
C5_Witness ==
  /\ Returned /\ accepted
  /\ pre.ConfigChangeId > 0
  /\ index > pre.ConfigChangeId + 2

\* C6: with ordering on, a non-bootstrap request whose ConfigChangeId differs
\* from the snapshot's is rejected whatever its kind and target; a bootstrap
\* request, or any request with ordering off, is never rejected as stale
C6_Staleness ==
  /\ (pc = "returned" /\ ordered /\ ~cc.Initialize
        /\ cc.ConfigChangeId # pre.ConfigChangeId)
       => (panicked = NoPanic /\ ~accepted)
  /\ (pc = "returned" /\ (cc.Initialize \/ ~ordered))
       => reason # RejOutOfOrder

\* a stale request with nothing else wrong was rejected
C6_Witness ==
  /\ Returned /\ ordered /\ ~cc.Initialize
  /\ cc.ConfigChangeId # pre.ConfigChangeId
  /\ reason = RejOutOfOrder
  /\ cc.Type = AddWitness
  /\ cc.NodeID \notin RoleKeys(pre) \cup pre.Removed
  /\ ~alreadyMember(pre, cc)

\* C7: for a request of the four kinds the call returns true exactly when the
\* request is not stale and none of the nine rejection predicates holds
C7_ValidatorFormula ==
  (pc = "returned" /\ cc.Type \in KnownTypes) =>
    /\ panicked = NoPanic
    /\ accepted =
         IF stale(pre, ordered, cc) THEN FALSE
         ELSE ~ \/ targetRemoved(pre, cc)
                \/ alreadyMember(pre, cc)
                \/ observerOverVoter(pre, cc)
                \/ witnessOverVoter(pre, cc)
                \/ witnessToVoter(pre, cc)
                \/ witnessToObserver(pre, cc)
                \/ observerToWitness(pre, cc)
                \/ lastVoterRemoval(pre, cc)
                \/ invalidPromotion(pre, cc)

\* an address already held by a witness was refused to a new voter
C7_Witness ==
  /\ Returned /\ ~accepted /\ cc.Type = AddNode
  /\ ~stale(pre, ordered, cc)
  /\ cc.NodeID \notin RoleKeys(pre) \cup pre.Removed
  /\ \E n \in DOMAIN pre.Witnesses : SameAddress(pre.Witnesses[n], cc.Address)

\* C8: a non-stale AddNode for a current observer is accepted exactly when
\* its address names the observer's endpoint; accepted, the node leaves
\* Observers and enters Addresses; rejected, both maps are unchanged
C8_Promotion ==
  (pc = "returned" /\ cc.Type = AddNode /\ cc.NodeID \in DOMAIN pre.Observers
     /\ ~stale(pre, ordered, cc)) =>
    /\ panicked = NoPanic
    /\ accepted = SameAddress(pre.Observers[cc.NodeID], cc.Address)
    /\ accepted =>
         /\ cc.NodeID \notin DOMAIN members.Observers
         /\ cc.NodeID \in DOMAIN members.Addresses
         /\ members.Addresses[cc.NodeID] = cc.Address
    /\ ~accepted =>
         /\ members.Observers = pre.Observers
         /\ members.Addresses = pre.Addresses

\* an observer was promoted with another spelling of its address
C8_Witness ==
  /\ Returned /\ accepted /\ cc.Type = AddNode
  /\ cc.NodeID \in DOMAIN pre.Observers
  /\ pre.Observers[cc.NodeID] # cc.Address

\* the first documented reason that holds, as the line the code logs for it
firstReason(s, ord, r) ==
  IF stale(s, ord, r) THEN RejOutOfOrder
  ELSE IF targetRemoved(s, r) THEN RejAddRemoved
  ELSE IF alreadyMember(s, r) THEN RejAddExist
  ELSE IF observerOverVoter(s, r) THEN RejAddExistAsObserver
  ELSE IF witnessOverVoter(s, r) THEN RejAddExistAsWitness
  ELSE IF witnessToVoter(s, r) THEN RejAddWitnessAsNode
  ELSE IF witnessToObserver(s, r) THEN RejAddWitnessAsObserver
  ELSE IF observerToWitness(s, r) THEN RejAddObserverAsWitness
  ELSE IF lastVoterRemoval(s, r) THEN RejRemoveOnlyNode
  ELSE IF invalidPromotion(s, r) THEN RejInvalidPromotion
  ELSE NoLine

\* C9: a rejected call logs exactly the first reason that holds in the
\* documented priority order, the "unknown reasons" panic never happens, and
\* an accepted call logs no rejection line
C9_RejectionReason ==
  /\ (Returned /\ ~accepted) =>
       (reason \in RejectLines /\ reason = firstReason(pre, ordered, cc))
  /\ panicked # PanicUnknownReason
  /\ (Returned /\ accepted) => reason \notin RejectLines

\* a request with two things wrong (retired target, address in use) was
\* rejected under the earlier one
C9_Witness ==
  /\ Returned /\ ~accepted /\ reason = RejAddRemoved
  /\ \E n \in RoleKeys(pre) :
       \/ n \in DOMAIN pre.Addresses /\ SameAddress(pre.Addresses[n], cc.Address)
       \/ n \in DOMAIN pre.Observers /\ SameAddress(pre.Observers[n], cc.Address)

\* C10 as stated: from the snapshot of newMembership every request with
\* Initialize = false is rejected
C10_OnlyBootstrapAccepted ==
  (pc = "returned" /\ pre = newMembership /\ ~cc.Initialize) => ~accepted

\* C10 as amended: from the snapshot of newMembership a request of the four
\* kinds is accepted exactly when it is not stale, so a request with
\* Initialize = false is rejected only when ordering is on and its
\* ConfigChangeId is not 0
C10_InitialAcceptance ==
  (pc = "returned" /\ pre = newMembership /\ cc.Type \in KnownTypes) =>
    /\ panicked = NoPanic
    /\ accepted = (cc.Initialize \/ ~ordered \/ cc.ConfigChangeId = 0)

\* a non-bootstrap request was accepted by the empty snapshot under ordering
C10_Witness ==
  /\ Returned /\ pre = newMembership /\ ~cc.Initialize /\ ordered
  /\ accepted

\* C15: for requests of the four kinds the "not suppose to reach here"
\* panics of applyConfigChange never fire: every such call returns
C15_DefensiveChecksUnreachable ==
  /\ panicked # PanicNotSupposed
  /\ (pc = "returned" /\ cc.Type \in KnownTypes) => panicked = NoPanic

\* an AddNode aimed at a witness, with an address nobody holds, was stopped
\* by the validator before the applier's check
C15_Witness ==
  /\ Returned /\ ~accepted /\ cc.Type = AddNode
  /\ cc.NodeID \in DOMAIN pre.Witnesses
  /\ reason = RejAddWitnessAsNode

RoleOf(s, n) ==
  CASE n \in DOMAIN s.Addresses -> "voter"
    [] n \in DOMAIN s.Observers -> "observer"
    [] n \in DOMAIN s.Witnesses -> "witness"
    [] n \in s.Removed -> "removed"
    [] OTHER -> "none"

AllowedTransition(a, b) ==
  \/ a = b
  \/ a = "none" /\ b \in {"voter", "observer", "witness"}
  \/ a = "observer" /\ b = "voter"
  \/ b = "removed"

\* a request that asks for a role change the documentation forbids
ForbiddenRoleChange(s, r) ==
  \/ RoleOf(s, r.NodeID) = "voter" /\ r.Type \in {AddObserver, AddWitness}
  \/ RoleOf(s, r.NodeID) = "witness" /\ r.Type \in {AddNode, AddObserver}
  \/ RoleOf(s, r.NodeID) = "observer" /\ r.Type = AddWitness

\* C17: over one call a NodeID keeps its role, enters a role from none,
\* goes from observer to voter, or becomes removed; a request for any other
\* role change is rejected and leaves the snapshot unchanged
C17_RoleTransitions ==
  pc = "returned" =>
    /\ \A n \in NodeIDs : AllowedTransition(RoleOf(pre, n), RoleOf(members, n))
    /\ ForbiddenRoleChange(pre, cc) =>
         (panicked = NoPanic /\ ~accepted /\ members = pre)

\* an observer was asked to become a witness under an unused address
C17_Witness ==
  /\ Returned /\ ~accepted /\ cc.Type = AddWitness
  /\ cc.NodeID \in DOMAIN pre.Observers
  /\ reason = RejAddObserverAsWitness

\* C18: a non-stale RemoveNode is rejected exactly when its target is the
\* sole voter; accepted, the target is in no role map, is in Removed, and
\* ConfigChangeId is the log index
C18_RemoveNode ==
  (pc = "returned" /\ cc.Type = RemoveNode /\ ~stale(pre, ordered, cc)) =>
    /\ panicked = NoPanic
    /\ accepted = (DOMAIN pre.Addresses # {cc.NodeID})
    /\ accepted =>
         /\ cc.NodeID \notin RoleKeys(members)
         /\ cc.NodeID \in members.Removed
         /\ members.ConfigChangeId = index

\* a NodeID already retired was removed again, next to a live voter
C18_Witness ==
  /\ Returned /\ accepted /\ cc.Type = RemoveNode
  /\ cc.NodeID \in pre.Removed
  /\ pre.Addresses # EmptyMap

AddressOf(s, n) ==
  CASE n \in DOMAIN s.Addresses -> s.Addresses[n]
    [] n \in DOMAIN s.Observers -> s.Observers[n]
    [] n \in DOMAIN s.Witnesses -> s.Witnesses[n]

\* C19: no two distinct NodeIDs among voters, observers and witnesses hold
\* addresses naming the same endpoint
C19_AddressUniqueness ==
  \A n1, n2 \in RoleKeys(members) :
    n1 # n2 => ~SameAddress(AddressOf(members, n1), AddressOf(members, n2))

\* an observer was promoted under another spelling of its address while
\* another member was present
C19_Witness ==
  /\ Returned /\ accepted /\ cc.Type = AddNode
  /\ cc.NodeID \in DOMAIN pre.Observers
  /\ pre.Observers[cc.NodeID] # cc.Address
  /\ Cardinality(RoleKeys(members)) = 2

\* C20: with ordering on and increasing log indexes, no two accepted
\* non-Initialize requests carry the same ConfigChangeId, and a
\* non-Initialize request carrying a ConfigChangeId the snapshot has since
\* replaced is rejected as out of order
C20_OneAcceptancePerOrder ==
  /\ (Returned /\ ordered /\ accepted /\ ~cc.Initialize)
       => cc.ConfigChangeId \notin orderHistory.used
  /\ (pc = "returned" /\ ordered /\ ~cc.Initialize
        /\ cc.ConfigChangeId \in orderHistory.old)
       => (panicked = NoPanic /\ ~accepted /\ reason = RejOutOfOrder)

\* a second request carrying an order already used by an accepted request,
\* with nothing else wrong, was rejected
C20_Witness ==
  /\ Returned /\ ordered /\ ~cc.Initialize /\ ~accepted
  /\ cc.ConfigChangeId \in orderHistory.used
  /\ cc.Type = RemoveNode
  /\ ~lastVoterRemoval(pre, cc)
  /\ Cardinality(orderHistory.old) >= 2

\* C16 as stated: a request of unknown kind always ends in a panic, and the
\* snapshot at the panic is the one at entry (ConfigChangeId not stamped)
C16_UnknownKindAborts ==
  (pc = "returned" /\ cc.Type = UnknownType) =>
    (panicked # NoPanic /\ members = pre)

\* C16 as amended: a request of unknown kind is never accepted; not stale, it
\* panics in applyConfigChange with ConfigChangeId already set to the log
\* index and the four collections untouched; stale, it returns false as out
\* of order with the snapshot unchanged
C16_UnknownKind ==
  (pc = "returned" /\ cc.Type = UnknownType) =>
    /\ ~accepted
    /\ IF stale(pre, ordered, cc)
         THEN panicked = NoPanic /\ reason = RejOutOfOrder /\ members = pre
         ELSE /\ panicked = PanicUnknownType
              /\ members = [pre EXCEPT !.ConfigChangeId = index]

\* a stale request of unknown kind came back as an ordinary rejection from a
\* populated snapshot
C16_Witness ==
  /\ Returned /\ cc.Type = UnknownType /\ ~accepted
  /\ pre.Addresses # EmptyMap

\* the number a run of little-endian bytes stands for
RECURSIVE DecodeLE(_)
DecodeLE(bytes) ==
  IF bytes = <<>> THEN 0 ELSE Head(bytes) + 256 * DecodeLE(Tail(bytes))

\* data is the 8-byte little-endian blocks of the voter NodeIDs of s in
\* ascending order, then of its ConfigChangeId
IsDigestInputOf(data, s) ==
  LET n == Cardinality(DOMAIN s.Addresses)
      block(k) == DecodeLE(SubSeq(data, 8 * k - 7, 8 * k))
  IN  /\ Len(data) = 8 * (n + 1)
      /\ { block(k) : k \in 1..n } = DOMAIN s.Addresses
      /\ \A k \in 1..(n - 1) : block(k) < block(k + 1)
      /\ block(n + 1) = s.ConfigChangeId

\* C12: getHash writes the voter NodeIDs in ascending order followed by
\* ConfigChangeId; two snapshots get the same bytes exactly when they have
\* the same voter NodeIDs and the same ConfigChangeId, whatever the range
\* order, the addresses, observers, witnesses and removed NodeIDs
C12_DigestInput ==
  pc = "hashed" =>
    /\ IsDigestInputOf(digests.a, members)
    /\ IsDigestInputOf(digests.b, peer.members)
    /\ (digests.a = digests.b) =
         (/\ DOMAIN members.Addresses = DOMAIN peer.members.Addresses
          /\ members.ConfigChangeId = peer.members.ConfigChangeId)

\* two snapshots with the same two voters but other addresses, observers,
\* witnesses and removed NodeIDs were hashed to the same bytes
C12_Witness ==
  /\ pc = "hashed"
  /\ digests.a = digests.b
  /\ Cardinality(DOMAIN members.Addresses) = 2
  /\ members.Addresses # peer.members.Addresses
  /\ members.Witnesses # peer.members.Witnesses
  /\ members.Removed # peer.members.Removed

\* C11: two stores that start equal and are fed the same changes at the same
\* log indexes return the same result at every step and hold equal
\* snapshots, hence write the same bytes to the hash
C11_ReplicaDeterminism ==
  /\ peer.members = members
  /\ peer.accepted = accepted
  /\ peer.panic = panicked
  /\ peer.reason = reason
  /\ digests.a = digests.b

\* both replicas, holding two voters, refused an address the second voter
\* of the map holds and then hashed their snapshots
C11_Witness ==
  /\ Returned /\ ~accepted /\ ~peer.accepted
  /\ reason = RejAddExist
  /\ Cardinality(DOMAIN pre.Addresses) = 2
  /\ cc.Type = AddObserver
  /\ SameAddress(pre.Addresses[2], cc.Address)
  /\ digests.a # <<>>

\* C13: set with the value just returned by get or getMembership leaves the
\* store as it was: its voters, observers and witnesses maps, its removed
\* set and its ConfigChangeId are equal to what they were before
C13_RoundTrip ==
  [][ (pc \in {"get", "getMembership"} /\ pc' = "restored")
        => /\ members' = members
           /\ Contents(heap', store') = Contents(heap, store) ]_vars

C13_Witness ==
  /\ pc = "restored"
  /\ members.Addresses # EmptyMap
  /\ members.Observers # EmptyMap
  /\ members.Witnesses # EmptyMap
  /\ members.Removed # {}
  /\ members.ConfigChangeId > 0

\* C14: a caller writing to a map it got from get or getMembership, or to a
\* map of the value it passed to set, never changes the snapshot of the
\* store, and handleConfigChange never changes what a caller holds
C14_DefensiveCopies ==
  [][ /\ pc' = "written"
          => /\ members' = members
             /\ Contents(heap', store') = Contents(heap, store)
      /\ (pc' = "returned" /\ caller # Nobody)
          => /\ caller' = caller
             /\ Contents(heap', caller.value) = Contents(heap, caller.value) ]_vars

C14_Witness ==
  /\ pc = "returned"
  /\ members # pre
  /\ caller # Nobody
  /\ caller.from = "getMembership"
  /\ caller.passed
  /\ caller.written

\* the entry of NodeID n in a map: empty when n is no key of it
EntryOf(map, n) == IF n \in DOMAIN map THEN {map[n]} ELSE {}

\* C21: an accepted request changes only ConfigChangeId and the entries of
\* its own NodeID: every other NodeID keeps its entry in the voters,
\* observers and witnesses maps and its membership in removed, and an
\* accepted Add* request leaves the removed set as it was
C21_AcceptedFrame ==
  (Returned /\ accepted) =>
    /\ \A n \in (RoleKeys(pre) \cup RoleKeys(members) \cup pre.Removed
                  \cup members.Removed \cup NodeIDs) \ {cc.NodeID} :
         /\ EntryOf(members.Addresses, n) = EntryOf(pre.Addresses, n)
         /\ EntryOf(members.Observers, n) = EntryOf(pre.Observers, n)
         /\ EntryOf(members.Witnesses, n) = EntryOf(pre.Witnesses, n)
         /\ (n \in members.Removed) = (n \in pre.Removed)
    /\ IsAddKind(cc) => members.Removed = pre.Removed

\* an observer was promoted while another NodeID was an observer too
C21_Witness ==
  /\ Returned /\ accepted /\ cc.Type = AddNode
  /\ cc.NodeID \in DOMAIN pre.Observers
  /\ cc.NodeID \in DOMAIN members.Addresses
  /\ \E n \in DOMAIN pre.Observers : n # cc.NodeID

====
